---- MODULE Spec2Model ----
(***************************************************************************)
(* Model of main.py of guild-vision-bot: the capture loop with its stop   *)
(* button thread, the remote extraction call extract_with_gemini, the      *)
(* de-duplicating export, and the local parse extract_names_and_points.    *)
(***************************************************************************)
EXTENDS Integers, Sequences, FiniteSets, TLC

\* ---------------------------------------------------------------- bounds
\* MAX_CAPTURES is 1000 in main.py:30; the model runs the same loop with a
\* smaller cap.
MAX_CAPTURES == 4
\* number of distinct pixel contents the screen region can show
MaxPixels == 2
\* most guild_screenshot_*.png files found on disk in analyze-only mode
MaxExisting == 2
\* longest "players" list of a remote response
MaxPlayers == 3
\* longest OCR text enumerated character by character
MaxTextLen == 5

Pixels == 1..MaxPixels
None == 0

\* ------------------------------------------------------------ pure helpers
Last3Same(s) ==
    /\ Len(s) >= 3
    /\ s[Len(s)] = s[Len(s) - 1]
    /\ s[Len(s) - 1] = s[Len(s) - 2]

\* file names guild_screenshot_0.png .. guild_screenshot_{n-1}.png
FileNames(n) == [k \in 1..n |-> k - 1]

\* MemberRecord {Name, Points} as an extraction can return it
Names == {"A", "B"}
PointValues == {0, 1500}
MemberRecords == [Name : Names, Points : PointValues]

RECURSIVE SeqsUpTo(_, _)
SeqsUpTo(S, n) ==
    IF n = 0 THEN {<<>>}
    ELSE LET shorter == SeqsUpTo(S, n - 1)
         IN  shorter \cup {Append(s, x) : s \in {t \in shorter : Len(t) = n - 1}, x \in S}

\* what client.models.generate_content / response.text can turn out to be
Responses ==
    {[kind |-> "raise", players |-> <<>>],
     [kind |-> "not_json", players |-> <<>>],
     [kind |-> "no_players", players |-> <<>>]}
    \cup {[kind |-> "players", players |-> p] : p \in SeqsUpTo(MemberRecords, MaxPlayers)}

NoResponse == [kind |-> "none", players |-> <<>>]

\* os.environ.get("GEMINI_API_KEY"): absent (None), "" or a key
ApiKeys == {"absent", "empty", "set"}

\* a variant that tests only for an absent variable
KeyMissing_NoneOnly(k) == k = "absent"

\* `if not api_key` (main.py:86)
KeyMissing(k) == k \in {"absent", "empty"}

\* extract_with_gemini(image_paths): the returned list, whether an
\* exception leaves the function, and the number of requests issued
extract_with_gemini(key, resp) ==
    IF KeyMissing(key)
    THEN [ret |-> <<>>, raised |-> FALSE, requests |-> 0]
    ELSE CASE resp.kind = "raise" ->
              \* generate_content raised: the handler's second print reads
              \* response.text while response is unbound
              [ret |-> <<>>, raised |-> TRUE, requests |-> 1]
           [] resp.kind = "not_json" ->
              [ret |-> <<>>, raised |-> FALSE, requests |-> 1]
           [] resp.kind = "no_players" ->
              [ret |-> <<>>, raised |-> FALSE, requests |-> 1]
           [] OTHER ->
              [ret |-> resp.players, raised |-> FALSE, requests |-> 1]

\* a variant with subset=["Name"]
SameKey_NameOnly(a, b) == a.Name = b.Name

\* DataFrame.drop_duplicates(subset=["Name", "Points"]): keep the first row
\* of every (Name, Points) pair, in order
SameKey(a, b) == a.Name = b.Name /\ a.Points = b.Points

RECURSIVE drop_duplicates(_)
drop_duplicates(rows) ==
    IF rows = <<>> THEN <<>>
    ELSE LET front == SubSeq(rows, 1, Len(rows) - 1)
             r == rows[Len(rows)]
             kept == drop_duplicates(front)
         IN  IF \E k \in 1..Len(front) : SameKey(front[k], r)
             THEN kept
             ELSE Append(kept, r)

\* ------------------------------------------- extract_names_and_points
\* a text is a sequence of one-character strings
Letters ==
    {"A", "B", "C", "D", "E", "F", "G", "H", "I", "J", "K", "L", "M",
     "N", "O", "P", "Q", "R", "S", "T", "U", "V", "W", "X", "Y", "Z",
     "a", "b", "c", "d", "e", "f", "g", "h", "i", "j", "k", "l", "m",
     "n", "o", "p", "q", "r", "s", "t", "u", "v", "w", "x", "y", "z"}
Digits == {"0", "1", "2", "3", "4", "5", "6", "7", "8", "9"}
Whitespace == {" ", "\t", "\n", "\r"}

\* [A-Za-z0-9_ -]
InNameClass(c) == c \in Letters \cup Digits \cup {"_", " ", "-"}
\* characters re.sub(r"[^A-Za-z0-9_ ]", "", name) keeps
InCleanClass(c) == c \in Letters \cup Digits \cup {"_", " "}

DigitValue(c) ==
    CASE c = "0" -> 0 [] c = "1" -> 1 [] c = "2" -> 2 [] c = "3" -> 3
      [] c = "4" -> 4 [] c = "5" -> 5 [] c = "6" -> 6 [] c = "7" -> 7
      [] c = "8" -> 8 [] c = "9" -> 9

\* int(points)
RECURSIVE ToInt(_)
ToInt(ds) ==
    IF ds = <<>> THEN 0
    ELSE 10 * ToInt(SubSeq(ds, 1, Len(ds) - 1)) + DigitValue(ds[Len(ds)])

\* str.strip()
RECURSIVE strip(_)
strip(s) ==
    IF s = <<>> THEN <<>>
    ELSE IF s[1] \in Whitespace THEN strip(Tail(s))
    ELSE IF s[Len(s)] \in Whitespace THEN strip(SubSeq(s, 1, Len(s) - 1))
    ELSE s

\* text.split("\n")
RECURSIVE split_lines(_)
split_lines(t) ==
    IF \A k \in 1..Len(t) : t[k] # "\n" THEN <<t>>
    ELSE LET n == CHOOSE k \in 1..Len(t) :
                    t[k] = "\n" /\ \A j \in 1..(k - 1) : t[j] # "\n"
         IN  <<SubSeq(t, 1, n - 1)>> \o split_lines(SubSeq(t, n + 1, Len(t)))

SetMax(S) == CHOOSE x \in S : \A y \in S : y <= x
SetMin(S) == CHOOSE x \in S : \A y \in S : x <= y

\* every way ([A-Za-z0-9_ -]+)\s*(\d{3,5}) matches inside line:
\* group 1 is line[s..a], \s* is line[a+1..b], group 2 is line[b+1..c]
pattern_matches(line) ==
    {m \in (1..Len(line)) \X (1..Len(line)) \X (1..Len(line)) \X (1..Len(line)) :
        /\ m[1] <= m[2] /\ m[2] <= m[3] /\ m[3] < m[4]
        /\ \A k \in m[1]..m[2] : InNameClass(line[k])
        /\ \A k \in (m[2] + 1)..m[3] : line[k] \in Whitespace
        /\ m[4] - m[3] \in 3..5
        /\ \A k \in (m[3] + 1)..m[4] : line[k] \in Digits}

\* re.search: leftmost start, then each quantifier greedy in turn
re_search(line) ==
    LET M == pattern_matches(line)
        s == SetMin({m[1] : m \in M})
        a == SetMax({m[2] : m \in {x \in M : x[1] = s}})
        b == SetMax({m[3] : m \in {x \in M : x[1] = s /\ x[2] = a}})
        c == SetMax({m[4] : m \in {x \in M : x[1] = s /\ x[2] = a /\ x[3] = b}})
    IN  IF M = {} THEN <<>>
        ELSE <<[group1 |-> SubSeq(line, s, a), group2 |-> SubSeq(line, b + 1, c)]>>

\* the record appended for one line, or nothing (main.py:178-188)
parse_line(raw) ==
    LET line == strip(raw)
        found == re_search(line)
    IN  IF line = <<>> \/ found = <<>> THEN <<>>
        ELSE LET name == strip(found[1].group1)
                 points == strip(found[1].group2)
                 cleaned == strip(SelectSeq(name, InCleanClass))
             IN  <<[Name |-> cleaned, Points |-> ToInt(points)]>>

RECURSIVE parse_lines(_)
parse_lines(lines) ==
    IF lines = <<>> THEN <<>>
    ELSE parse_line(Head(lines)) \o parse_lines(Tail(lines))

extract_names_and_points(t) == parse_lines(split_lines(t))

\* the texts the parse is run on
TextAlphabet == {"P", "1", " ", "-", ".", "\n"}
PlayerOneLine == <<"P", "l", "a", "y", "e", "r", "O", "n", "e", " ", "1", "5", "0", "0">>
PlayerOneName == <<"P", "l", "a", "y", "e", "r", "O", "n", "e">>
Texts ==
    SeqsUpTo(TextAlphabet, MaxTextLen)
    \cup {PlayerOneLine, <<"P", "\t", "1", "2", "3">>, <<"a", "b", "-", "1", "2", "3", "4">>}

VARIABLES
    analyze_only, screenshot_only, \* args
    api_key,                 \* environment
    pc,                      \* position of the main thread
    gui,                     \* stop-button thread / window
    stop_capture_flag,
    i,                       \* loop index of the capture loop
    frames,                  \* contents returned by pyautogui.screenshot, in order
    screenshot_files,
    previous_screenshot,
    consecutive_same_captures,
    exit_reason,             \* which statement ended the capture loop
    flag_set_at,             \* number of captures taken when the flag was set, -1 before
    response,                \* outcome of the remote request of this run
    gemini_calls,            \* calls of extract_with_gemini
    requests,                \* requests issued to the remote model
    batch,                   \* image_paths of the extraction call
    all_guild_members_data,
    exported,                \* rows of Results/guild_members.xlsx
    file_written,
    text, names_points       \* input and result of extract_names_and_points

vars == <<analyze_only, screenshot_only, api_key, pc, gui, stop_capture_flag, i,
          frames, screenshot_files, previous_screenshot,
          consecutive_same_captures, exit_reason, flag_set_at, response,
          gemini_calls, requests, batch, all_guild_members_data, exported,
          file_written, text, names_points>>

argVars == <<analyze_only, screenshot_only, api_key>>
loopVars == <<i, frames, screenshot_files, previous_screenshot,
              consecutive_same_captures, exit_reason>>
analysisVars == <<response, gemini_calls, requests, batch, all_guild_members_data>>
exportVars == <<exported, file_written>>
parseVars == <<text, names_points>>

InitRun ==
    /\ analyze_only \in BOOLEAN
    /\ screenshot_only \in BOOLEAN
    /\ api_key \in ApiKeys
    /\ pc = "start"
    /\ gui = "not_started"
    /\ stop_capture_flag = FALSE
    /\ i = 0
    /\ frames = <<>>
    /\ screenshot_files = <<>>
    /\ previous_screenshot = None
    /\ consecutive_same_captures = 0
    /\ exit_reason = "none"
    /\ flag_set_at = -1
    /\ response = NoResponse
    /\ gemini_calls = 0
    /\ requests = 0
    /\ batch = <<>>
    /\ all_guild_members_data = <<>>
    /\ exported = <<>>
    /\ file_written = FALSE

Init ==
    /\ InitRun
    /\ text = <<>>
    /\ names_points = <<>>

\* ------------------------------------------------------------ main thread
\* main.py:221-223  both flags: report and exit
ExitBothFlags ==
    /\ pc = "start"
    /\ analyze_only /\ screenshot_only
    /\ pc' = "done"
    /\ UNCHANGED <<argVars, gui, stop_capture_flag, loopVars, flag_set_at,
                   analysisVars, exportVars, parseVars>>

\* main.py:233-250  capture mode: reset the counters, start the GUI thread
StartCapture ==
    /\ pc = "start"
    /\ ~analyze_only
    /\ consecutive_same_captures' = 0
    /\ previous_screenshot' = None
    /\ gui' = "running"
    /\ pc' = "loop_check"
    /\ UNCHANGED <<argVars, stop_capture_flag, i, frames, screenshot_files,
                   exit_reason, flag_set_at, analysisVars, exportVars, parseVars>>

\* main.py:309-320  analyze-only mode: glob the saved screenshots
FindExistingFiles ==
    /\ pc = "start"
    /\ analyze_only /\ ~screenshot_only
    /\ \E n \in 0..MaxExisting : screenshot_files' = FileNames(n)
    /\ pc' = "analysis"
    /\ UNCHANGED <<argVars, gui, stop_capture_flag, i, frames,
                   previous_screenshot, consecutive_same_captures, exit_reason,
                   flag_set_at, analysisVars, exportVars, parseVars>>

\* a variant whose iteration never reads the stop flag
LoopCheck_NoFlag ==
    /\ pc = "loop_check"
    /\ IF i >= MAX_CAPTURES
       THEN /\ pc' = "after_loop"
            /\ exit_reason' = "cap"
       ELSE /\ pc' = "loop_body"
            /\ UNCHANGED exit_reason
    /\ UNCHANGED <<argVars, gui, stop_capture_flag, i, frames, screenshot_files,
                   previous_screenshot, consecutive_same_captures, flag_set_at,
                   analysisVars, exportVars, parseVars>>

\* main.py:254-263  head of an iteration: range(MAX_CAPTURES) exhausted, or
\* the one read of the stop flag
LoopCheck ==
    /\ pc = "loop_check"
    /\ IF i >= MAX_CAPTURES
       THEN /\ pc' = "after_loop"
            /\ exit_reason' = "cap"
       ELSE IF stop_capture_flag
            THEN /\ pc' = "after_loop"
                 /\ exit_reason' = "stop"
            ELSE /\ pc' = "loop_body"
                 /\ UNCHANGED exit_reason
    /\ UNCHANGED <<argVars, gui, stop_capture_flag, i, frames, screenshot_files,
                   previous_screenshot, consecutive_same_captures, flag_set_at,
                   analysisVars, exportVars, parseVars>>

\* a variant that never resets the counter
NextSame_NoReset(prev, cur, same) ==
    IF prev # None
    THEN IF cur = prev THEN same + 1 ELSE same
    ELSE same

\* the duplicate counter after comparing cur with prev (main.py:272-282)
NextSame(prev, cur, same) ==
    IF prev # None
    THEN IF cur = prev THEN same + 1 ELSE 0
    ELSE same

\* a variant that waits for one more identical capture
EnoughSame_Three(same) == same >= 3

\* consecutive_same_captures >= 2 (main.py:286-288)
EnoughSame(same) == same >= 2

\* main.py:265-294  screenshot, save, append, compare, remember, test, sleep
CaptureOk ==
    /\ pc = "loop_body"
    /\ \E cur \in Pixels :
         LET same == NextSame(previous_screenshot, cur, consecutive_same_captures)
         IN  /\ frames' = Append(frames, cur)
             /\ screenshot_files' = Append(screenshot_files, i)
             /\ consecutive_same_captures' = same
             /\ previous_screenshot' = cur
             /\ IF EnoughSame(same)
                THEN /\ pc' = "after_loop"
                     /\ exit_reason' = "duplicate"
                     /\ UNCHANGED i
                ELSE /\ pc' = "loop_check"
                     /\ i' = i + 1
                     /\ UNCHANGED exit_reason
    /\ UNCHANGED <<argVars, gui, stop_capture_flag, flag_set_at,
                   analysisVars, exportVars, parseVars>>

\* main.py:267, 296-301  pyautogui.screenshot raises: break
CaptureError ==
    /\ pc = "loop_body"
    /\ pc' = "after_loop"
    /\ exit_reason' = "error"
    /\ UNCHANGED <<argVars, gui, stop_capture_flag, i, frames, screenshot_files,
                   previous_screenshot, consecutive_same_captures, flag_set_at,
                   analysisVars, exportVars, parseVars>>

\* a variant that records the file name before saving
SaveError_Appended ==
    /\ pc = "loop_body"
    /\ \E cur \in Pixels : frames' = Append(frames, cur)
    /\ screenshot_files' = Append(screenshot_files, i)
    /\ pc' = "after_loop"
    /\ exit_reason' = "error"
    /\ UNCHANGED <<argVars, gui, stop_capture_flag, i,
                   previous_screenshot, consecutive_same_captures, flag_set_at,
                   analysisVars, exportVars, parseVars>>

\* main.py:268, 296-301  the screenshot was taken, save() raises: break
SaveError ==
    /\ pc = "loop_body"
    /\ \E cur \in Pixels : frames' = Append(frames, cur)
    /\ pc' = "after_loop"
    /\ exit_reason' = "error"
    /\ UNCHANGED <<argVars, gui, stop_capture_flag, i, screenshot_files,
                   previous_screenshot, consecutive_same_captures, flag_set_at,
                   analysisVars, exportVars, parseVars>>

\* a variant that ignores --screenshot-only
AfterLoop_NoExit ==
    /\ pc = "after_loop"
    /\ pc' = "analysis"
    /\ UNCHANGED <<argVars, gui, stop_capture_flag, loopVars, flag_set_at,
                   analysisVars, exportVars, parseVars>>

\* main.py:303-308  screenshot-only mode exits here
AfterLoop ==
    /\ pc = "after_loop"
    /\ pc' = IF screenshot_only THEN "done" ELSE "analysis"
    /\ UNCHANGED <<argVars, gui, stop_capture_flag, loopVars, flag_set_at,
                   analysisVars, exportVars, parseVars>>

\* main.py:323-328  the one extraction call, on a non-empty batch
Analysis ==
    /\ pc = "analysis"
    /\ IF screenshot_files # <<>>
       THEN \E resp \in Responses :
              LET r == extract_with_gemini(api_key, resp)
              IN  /\ gemini_calls' = gemini_calls + 1
                  /\ batch' = screenshot_files
                  /\ requests' = requests + r.requests
                  /\ response' = IF r.requests > 0 THEN resp ELSE NoResponse
                  /\ IF r.raised
                     THEN /\ pc' = "crashed"
                          /\ UNCHANGED all_guild_members_data
                     ELSE /\ pc' = "export"
                          /\ all_guild_members_data' = r.ret
       ELSE /\ pc' = "export"
            /\ UNCHANGED analysisVars
    /\ UNCHANGED <<argVars, gui, stop_capture_flag, loopVars, flag_set_at,
                   exportVars, parseVars>>

\* a variant that writes the spreadsheet whatever the data
Export_Always ==
    /\ pc = "export"
    /\ exported' = drop_duplicates(all_guild_members_data)
    /\ file_written' = TRUE
    /\ pc' = "done"
    /\ UNCHANGED <<argVars, gui, stop_capture_flag, loopVars, flag_set_at,
                   analysisVars, parseVars>>

\* main.py:331-345  de-duplicate and write the spreadsheet, if there is data
Export ==
    /\ pc = "export"
    /\ IF all_guild_members_data # <<>>
       THEN /\ exported' = drop_duplicates(all_guild_members_data)
            /\ file_written' = TRUE
       ELSE UNCHANGED exportVars
    /\ pc' = "done"
    /\ UNCHANGED <<argVars, gui, stop_capture_flag, loopVars, flag_set_at,
                   analysisVars, parseVars>>

\* ------------------------------------------------------- stop-button thread
\* main.py:145-149, 160  click on the button or close the window
on_stop_click ==
    /\ gui = "running"
    /\ pc \notin {"done", "crashed"}
    /\ stop_capture_flag' = TRUE
    /\ gui' = "destroyed"
    /\ flag_set_at' = Len(frames)
    /\ UNCHANGED <<argVars, pc, loopVars, analysisVars, exportVars, parseVars>>

Next ==
    \/ ExitBothFlags
    \/ StartCapture
    \/ FindExistingFiles
    \/ LoopCheck
    \/ CaptureOk
    \/ CaptureError
    \/ SaveError
    \/ AfterLoop
    \/ Analysis
    \/ Export
    \/ on_stop_click

Spec == Init /\ [][Next]_vars

\* ------------------------------------------------ the local parse, alone
InitParse ==
    /\ analyze_only = FALSE
    /\ screenshot_only = FALSE
    /\ api_key = "absent"
    /\ pc = "parse"
    /\ gui = "not_started"
    /\ stop_capture_flag = FALSE
    /\ i = 0
    /\ frames = <<>>
    /\ screenshot_files = <<>>
    /\ previous_screenshot = None
    /\ consecutive_same_captures = 0
    /\ exit_reason = "none"
    /\ flag_set_at = -1
    /\ response = NoResponse
    /\ gemini_calls = 0
    /\ requests = 0
    /\ batch = <<>>
    /\ all_guild_members_data = <<>>
    /\ exported = <<>>
    /\ file_written = FALSE
    /\ text \in Texts
    /\ names_points = <<>>

\* main.py:164-190
Parse ==
    /\ pc = "parse"
    /\ names_points' = extract_names_and_points(text)
    /\ pc' = "parsed"
    /\ UNCHANGED <<argVars, gui, stop_capture_flag, loopVars, flag_set_at,
                   analysisVars, exportVars, text>>

NextParse == Parse

SpecParse == InitParse /\ [][NextParse]_vars

\* ================================================================ properties
InLoop == pc \in {"loop_check", "loop_body"}
LoopLeft == ~analyze_only /\ pc \in {"after_loop", "analysis", "export", "done", "crashed"}

\* C1: as soon as the last three captures are pixel-identical the capture
\* loop has ended and no further capture is taken, and the number of captures
\* never exceeds MAX_CAPTURES.
C1_ThreeSameEndsLoop ==
    /\ [](Last3Same(frames) => ~InLoop)
    /\ [](Len(frames) <= MAX_CAPTURES)
    /\ [][Last3Same(frames) => frames' = frames]_vars

C1_Witness ==
    /\ Last3Same(frames)
    /\ exit_reason = "duplicate"
    /\ Len(frames) = 3
    /\ pc = "after_loop"

\* C2: the capture loop is left only by the stop flag read true at the head
\* of an iteration, by three identical captures in a row, by MAX_CAPTURES
\* iterations having run, or by a capture error; while the loop runs none of
\* these has happened; a differing frame resets the duplicate count, so the
\* count is always the number of equal neighbours at the end of the captures.
C2_StopReasons ==
    /\ LoopLeft => exit_reason \in {"stop", "duplicate", "cap", "error"}
    /\ exit_reason = "stop" => stop_capture_flag /\ ~Last3Same(frames) /\ i < MAX_CAPTURES
    /\ exit_reason = "duplicate" => Last3Same(frames)
    /\ exit_reason = "cap" =>
          i = MAX_CAPTURES /\ Len(frames) = MAX_CAPTURES /\ ~Last3Same(frames)
    /\ InLoop => exit_reason = "none" /\ ~Last3Same(frames) /\ i <= MAX_CAPTURES
    /\ pc = "loop_body" => i < MAX_CAPTURES
    /\ (exit_reason # "error" /\ Len(frames) >= 2
          /\ frames[Len(frames)] # frames[Len(frames) - 1])
        => consecutive_same_captures = 0
    /\ (exit_reason # "error" /\ Len(frames) >= 3
          /\ frames[Len(frames)] = frames[Len(frames) - 1]
          /\ frames[Len(frames) - 1] # frames[Len(frames) - 2])
        => consecutive_same_captures = 1

C2_Witness ==
    /\ exit_reason = "cap"
    /\ pc = "after_loop"
    /\ frames[1] = frames[3]
    /\ frames[1] # frames[2]
    /\ frames[3] = frames[4]

\* C3: once the stop flag is true it stays true, and at most one capture is
\* taken after the flag was set.
C3_StopAtMostOneLate ==
    /\ [][stop_capture_flag => stop_capture_flag']_vars
    /\ [](stop_capture_flag => Len(frames) <= flag_set_at + 1)
    /\ [](stop_capture_flag <=> flag_set_at >= 0)

C3_Witness ==
    /\ stop_capture_flag
    /\ exit_reason = "stop"
    /\ Len(frames) = flag_set_at + 1
    /\ flag_set_at >= 1

\* C4: a request that raises, or a response that is not JSON, leaves
\* extract_with_gemini returning an empty list, with no exception escaping.
C4_FailureCaught ==
    (gemini_calls = 1 /\ response.kind \in {"raise", "not_json"})
        => (pc # "crashed" /\ all_guild_members_data = <<>>)

\* C5 as stated: after a malformed response the finished run has an empty
\* extraction result and has written the output file.
C5_Original ==
    (pc = "done" /\ response.kind \in {"not_json", "no_players"})
        => (all_guild_members_data = <<>> /\ file_written)

\* C5: after a malformed response (not JSON, or no "players" list) the
\* extraction result is empty, the run goes on to its end without an
\* exception, and no output file is written.
C5_MalformedNoFile ==
    response.kind \in {"not_json", "no_players"}
        => /\ pc \in {"export", "done"}
           /\ all_guild_members_data = <<>>
           /\ ~file_written
           /\ exported = <<>>

C5_Witness ==
    /\ pc = "done"
    /\ response.kind = "not_json"
    /\ ~file_written

KeyOf(r) == <<r.Name, r.Points>>
KeysOf(rows) == {KeyOf(rows[k]) : k \in 1..Len(rows)}

\* C6: the exported rows hold every distinct (Name, Points) pair of the
\* extracted records exactly once: no two rows share a pair, every input pair
\* is there, and the row count is the number of distinct input pairs.
C6_Dedup ==
    pc = "done" =>
        /\ \A a, b \in 1..Len(exported) :
              a # b => KeyOf(exported[a]) # KeyOf(exported[b])
        /\ KeysOf(all_guild_members_data) = KeysOf(exported)
        /\ Len(exported) = Cardinality(KeysOf(all_guild_members_data))

C6_Witness ==
    /\ pc = "done"
    /\ file_written
    /\ Len(all_guild_members_data) = 3
    /\ Len(exported) = 2
    /\ all_guild_members_data[1].Name = all_guild_members_data[2].Name
    /\ all_guild_members_data[1].Points # all_guild_members_data[2].Points

\* C7: after a capture error in iteration i the loop is over, nothing more
\* is captured or saved, the kept files are exactly those of iterations
\* 0..i-1, and they are the batch of the extraction call: the call is made
\* with them whenever the run goes on to the analysis (not screenshot-only)
\* and some frame was saved.
C7_ErrorKeepsEarlierFrames ==
    /\ [](exit_reason = "error" =>
            /\ ~InLoop
            /\ screenshot_files = FileNames(i)
            /\ gemini_calls > 0 => batch = FileNames(i)
            /\ (pc \in {"export", "done", "crashed"} /\ i > 0 /\ ~screenshot_only)
                  => (gemini_calls = 1 /\ batch = FileNames(i)))
    /\ [][exit_reason = "error" =>
            /\ frames' = frames
            /\ screenshot_files' = screenshot_files
            /\ exit_reason' = "error"]_vars

C7_Witness ==
    /\ exit_reason = "error"
    /\ i = 2
    /\ Len(frames) = 3
    /\ gemini_calls = 1
    /\ batch = <<0, 1>>

\* C8: with the credential absent or empty the extraction call returns an
\* empty list, raises nothing and issues no request.
C8_MissingKey ==
    api_key \in {"absent", "empty"} =>
        /\ requests = 0
        /\ pc # "crashed"
        /\ all_guild_members_data = <<>>
        /\ gemini_calls > 0 => pc \in {"export", "done"}

C8_Witness ==
    /\ api_key = "empty"
    /\ gemini_calls = 1
    /\ pc = "export"

RECURSIVE TrailingDigits(_)
TrailingDigits(line) ==
    IF line = <<>> \/ line[Len(line)] \notin Digits THEN 0
    ELSE 1 + TrailingDigits(SubSeq(line, 1, Len(line) - 1))

EndsInDigitRun(line) == TrailingDigits(strip(line)) \in 3..5

\* C9: extract_names_and_points maps "PlayerOne 1500" to the one record
\* {Name: "PlayerOne", Points: 1500}, and a text none of whose lines ends in
\* a run of 3 to 5 digits yields no record.
C9_LocalParse ==
    pc = "parsed" =>
        /\ text = PlayerOneLine =>
              names_points = <<[Name |-> PlayerOneName, Points |-> 1500]>>
        /\ (\A k \in 1..Len(split_lines(text)) : ~EndsInDigitRun(split_lines(text)[k]))
              => names_points = <<>>

\* C10: analysis-only mode takes no capture and starts no stop-button
\* thread; screenshot-only mode ends after the loop with no extraction call
\* and no output file; both flags end the run at once; the extraction is
\* called at most once, with a non-empty batch.
C10_Modes ==
    /\ analyze_only => frames = <<>> /\ screenshot_files \in {FileNames(n) : n \in 0..MaxExisting}
    /\ analyze_only => gui = "not_started" /\ ~stop_capture_flag
    /\ screenshot_only =>
          /\ gemini_calls = 0 /\ requests = 0
          /\ ~file_written
          /\ pc \in {"start", "loop_check", "loop_body", "after_loop", "done"}
    /\ (analyze_only /\ screenshot_only) =>
          /\ pc \in {"start", "done"}
          /\ screenshot_files = <<>>
    /\ gemini_calls <= 1 /\ requests <= gemini_calls
    /\ gemini_calls = 1 => batch # <<>> /\ batch = screenshot_files

C10_Witness ==
    /\ screenshot_only /\ ~analyze_only
    /\ pc = "done"
    /\ Len(screenshot_files) >= 2
    /\ gemini_calls = 0

====
